---- MODULE Spec2Model ----
(***************************************************************************)
(* Model of the LMDB write pipeline, reader and recovery of lmdb_cli_tool  *)
(* (src/src/lmdb_main.py): LMDBWriter.__init__, LMDBWriter.create_dataset  *)
(* with its worker processes, LMDBWriter._write_cache, LMDBWriter.close,   *)
(* LMDBReader (__init__, __getitem__, close, __exit__) and LMDBRecovery    *)
(* (__init__, recover_images).                                             *)
(*                                                                         *)
(* One shard path is modelled.  The files of the path (data.mdb, lock.mdb, *)
(* lmdb.lst) and their contents survive from one writer to the next; the   *)
(* writer object, the two queues, the cache and the worker processes are   *)
(* volatile.                                                               *)
(***************************************************************************)
EXTENDS Integers, Sequences, FiniteSets, TLC

\* ------------------------------------------------------------------ bounds
MaxItems == 2      \* items submitted to create_dataset, all calls together
MaxWorkers == 2    \* num_workers: 1..MaxWorkers
MaxRuns == 2       \* writers constructed on the shard path, one after another
MaxBatch == 3      \* batch_size: 1..MaxBatch
MaxShards == 3     \* paths handed to one LMDBReader: 0..MaxShards
MaxLen == 2        \* __counter__ of a shard handed to a reader or a recovery
MaxCloses == 2     \* close() calls on one writer or reader object
MaxNames == 2      \* distinct file names in the lmdb.lst handed to a recovery
MaxDatasets == 2   \* names in the `dataset` entry of a writer configuration
MaxSide == 2       \* width and height of an image given to pil2bytes: 0..MaxSide
MaxArgs == 3       \* len(args) of a multiprocess_exec call: 0..MaxArgs
MaxProcesses == 2  \* num_processes of a multiprocess_exec call: 1..MaxProcesses

VARIABLES
    files,            \* which of data.mdb / lock.mdb / lmdb.lst exist under output_path
    store,            \* committed content of the LMDB environment: key -> bytes
    manifest,         \* lines of lmdb.lst
    pc,               \* position of the coordinator (the process that owns the writer)
    envOpen,          \* self.env is open
    counter,          \* self.counter
    resume,           \* the resume argument of the current writer
    num_workers,      \* self.num_workers
    batch_size,       \* the batch_size argument of create_dataset
    datasets,         \* the datasets argument of create_dataset
    input_queue,      \* input_queue: items, then one None per worker
    output_queue,     \* output_queue: processed dicts
    wpc,              \* position of every worker process
    witem,            \* the item a worker holds between get and put
    processes,        \* the coordinator's list `processes`
    cache,            \* the coordinator's dict `cache`
    processed_image,  \* the dict returned by output_queue.get
    processed_count,  \* the local processed_count
    loopExc,          \* the exception that left the collect loop ("none" if none)
    flushExc,         \* the final _write_cache of the finally block raised
    runs,             \* history: writers constructed so far
    submitted,        \* history: items handed to create_dataset so far
    base,             \* history: self.counter as set by __init__
    failed,           \* history: items whose processing raised in a worker
    total,            \* history: items submitted since the shard was last created fresh
    clean,            \* history: since then no item failed and no run crashed or raised
    shards,           \* LMDBReader: the directories found at self.paths
    rpc,              \* LMDBReader: "none", "open", "failed" (constructor raised), "closed"
    envs,             \* LMDBReader.envs, an environment is named by its position in paths
    lengths,          \* LMDBReader.lengths
    total_length,     \* LMDBReader.total_length
    cumulative_lengths, \* LMDBReader.cumulative_lengths
    openEnvs,         \* environments the reader opened and has not closed
    initErr,          \* the exception LMDBReader.__init__ raised ("none" if none)
    result,           \* outcome of the last LMDBReader.__getitem__
    closes,           \* history: close() calls on the current writer and reader
    lmdb_dir,         \* LMDBRecovery: the directory found at lmdb_path
    recpc,            \* LMDBRecovery: "none", "ready", "failed", "recovering", "done"
    recovery_counter, \* LMDBRecovery.counter
    file_list,        \* LMDBRecovery.file_list
    rec_idx,          \* the loop variable idx of recover_images
    fetched,          \* history: the indices recover_images asked the store for
    skipped,          \* history: the indices recover_images logged as missing
    out,              \* the files under LMDBRecovery.output_path: name -> bytes
    cli,              \* run_writer: dataset_lst, the loop position name_idx, pc
                      \* ("none", "check", "write", "done", "raised"), the exception
                      \* err, and outputs: the shard at each dataset's output_dir
                      \* ("old", "cleared", "written")
    codec,            \* img given to pil2bytes, bytes it returned, back: what
                      \* bytes2pil returned for them, pc ("none", "given",
                      \* "encoded", "rejected", "decoded")
    exec              \* multiprocess_exec: args, num_processes, arg_chunks,
                      \* result_queue (in the order of the puts), results, gets
                      \* (iterations of the collect loop), pc ("none", "join",
                      \* "collect", "returned", "raised"), err; fails: the
                      \* arguments on which func raises; fits: whether a chunk's
                      \* results fit the buffer of the queue's pipe; procs: per
                      \* chunk, its process ("run", "flush", "exited")

vars == <<files, store, manifest, pc, envOpen, counter, resume, num_workers,
          batch_size, datasets, input_queue, output_queue, wpc, witem,
          processes, cache, processed_image, processed_count, loopExc,
          flushExc, runs, submitted, base, failed, total, clean,
          shards, rpc, envs, lengths, total_length, cumulative_lengths,
          openEnvs, initErr, result, closes,
          lmdb_dir, recpc, recovery_counter, file_list, rec_idx, fetched,
          skipped, out, cli, codec, exec>>

diskVars == <<files, store, manifest>>
writerVars == <<envOpen, counter, resume, num_workers>>
queueVars == <<input_queue, output_queue>>
workerVars == <<wpc, witem>>
histVars == <<runs, submitted, base, failed, total, clean>>
pipelineVars == <<diskVars, writerVars, pc, batch_size, datasets, queueVars,
                  workerVars, processes, cache, processed_image,
                  processed_count, loopExc, flushExc, histVars>>
readerVars == <<shards, rpc, envs, lengths, total_length, cumulative_lengths,
                openEnvs, initErr, result>>
recoveryVars == <<lmdb_dir, recpc, recovery_counter, file_list, rec_idx,
                  fetched, skipped, out>>
toolVars == <<cli, codec, exec>>

Workers == 1..MaxWorkers

\* ------------------------------------------------------------ values
\* A task item is identified by a number >= 1; None is the termination signal.
None == 0
NoItem == [image_bin |-> <<>>, image_path |-> <<>>, label |-> <<>>]
NoRead == [idx |-> 0, err |-> "unread", image |-> <<>>, label |-> <<>>]
NoDir == [exists |-> FALSE, store |-> <<>>, lst |-> FALSE, manifest |-> <<>>]
NoImage == [mode |-> "", size |-> <<0, 0>>, px |-> 0]
NoBytes == [fmt |-> "", layers |-> 0, size |-> <<0, 0>>, px |-> 0]
NoRun == [dataset_lst |-> <<>>, name_idx |-> 0, pc |-> "none", err |-> "none",
          outputs |-> <<>>]
NoCodec == [img |-> NoImage, bytes |-> NoBytes, back |-> NoImage, pc |-> "none"]
NoCall == [args |-> <<>>, num_processes |-> 1, fails |-> {}, fits |-> TRUE,
           arg_chunks |-> <<>>, procs |-> <<>>, result_queue |-> <<>>,
           results |-> <<>>, gets |-> 0, pc |-> "none", err |-> "none"]
EmptyMap == <<>>

\* item[0] and item[1] of a (image_path, label, type) tuple
ItemPath(item) == <<"dir", item>>
ItemLabel(item) == <<"txt", item>>

\* os.path.basename(item[0])
Basename(path) == <<"base", path[2]>>

\* Image.open(path): the decoded picture of the file at path
ImageOpen(path) == [mode |-> "RGB", size |-> <<1, 1>>, px |-> path[2]]

\* the colour modes of the images handed to pil2bytes
Modes == {"1", "L", "P", "LA", "RGB", "RGBA", "CMYK", "YCbCr"}

\* line 62-63: pil.convert("RGB") when the image is RGBA
Converted(pil) == IF pil.mode = "RGBA" THEN [pil EXCEPT !.mode = "RGB"] ELSE pil

\* line 65: the modes pil.save(format="JPEG") writes; it raises OSError for
\* the others, and for an image without pixels
JpegWrites(pil) ==
    /\ pil.mode \in {"1", "L", "RGB", "CMYK", "YCbCr"}
    /\ pil.size[1] > 0 /\ pil.size[2] > 0

\* the number of colour components of the JPEG stream written for a mode
JpegLayers(mode) ==
    IF mode \in {"1", "L"} THEN 1 ELSE IF mode = "CMYK" THEN 4 ELSE 3

\* utils.pil2bytes with the default JPEG format: RGBA is converted to RGB
\* first; the stream records the size and the number of components
pil2bytes(pil) ==
    [fmt |-> "JPEG", layers |-> JpegLayers(Converted(pil).mode),
     size |-> Converted(pil).size, px |-> Converted(pil).px]

\* whether pil2bytes returns for this image (it raises otherwise)
Accepted(pil) == JpegWrites(Converted(pil))

\* utils.bytes2pil: Image.open gives a JPEG stream of one component the mode
\* L, of three RGB, of four CMYK
bytes2pil(bytes) ==
    [mode |-> IF bytes.layers = 1 THEN "L"
              ELSE IF bytes.layers = 4 THEN "CMYK" ELSE "RGB",
     size |-> bytes.size, px |-> bytes.px]

\* utils.str2bytes / utils.bytes2str
str2bytes(string) == <<"utf8", string>>
bytes2str(bytes) == bytes[2]

\* f"image-{i:09d}".encode(), f"label-{i:09d}".encode(), b"__counter__"
ImageKey(i) == <<"image-", i>>
LabelKey(i) == <<"label-", i>>
CounterKey == <<"__counter__", 0>>

\* str(n).encode() and int(bytes)
IntBytes(n) == <<"ascii", n>>
BytesInt(b) == b[2]

\* ------------------------------------------------------------ the store
\* txn.put(k, v)
Put(st, k, v) == [x \in DOMAIN st \cup {k} |-> IF x = k THEN v ELSE st[x]]

\* for k, v in cache.items(): txn.put(k, v)
PutAll(st, c) ==
    [x \in DOMAIN st \cup DOMAIN c |-> IF x \in DOMAIN c THEN c[x] ELSE st[x]]

\* int(txn.get(b"__counter__", b"0"))
CounterOf(st) == IF CounterKey \in DOMAIN st THEN BytesInt(st[CounterKey]) ELSE 0

\* the image-* keys of a store
ImageKeys(st) == {k \in DOMAIN st : k[1] = "image-"}
LabelKeys(st) == {k \in DOMAIN st : k[1] = "label-"}

\* a commit that records the size of the batch instead of self.counter
WriteCacheBatchLen(st, c, ctr) ==
    Put(PutAll(st, c), CounterKey, IntBytes(Cardinality(DOMAIN c)))

\* _write_cache when the transaction commits: the entries and the counter in
\* one write transaction
WriteCache(st, c, ctr) == Put(PutAll(st, c), CounterKey, IntBytes(ctr))

\* a failed commit whose counter update was written in a transaction of its own
AbortCacheCounterKept(st, c, ctr) == Put(st, CounterKey, IntBytes(ctr))

\* _write_cache when the transaction raises: the `with` block aborts it
AbortCache(st, c, ctr) == st

\* the processed dict a worker puts on the output queue
Processed(item) ==
    [image_bin |-> pil2bytes(ImageOpen(ItemPath(item))),
     image_path |-> Basename(ItemPath(item)),
     label |-> ItemLabel(item)]

\* a staging that stores the file name where the label belongs
StageLabelPath(c, ctr, p) == Put(c, LabelKey(ctr), str2bytes(p.image_path))

\* lines 128-129: the two cache entries of one processed image
StageImage(c, ctr, p) == Put(c, ImageKey(ctr), p.image_bin)
StageLabel(c, ctr, p) == Put(c, LabelKey(ctr), str2bytes(p.label))

\* an is_alive() that stays true for a process that has ended but was not joined
IsAliveUnreaped(w) == wpc[w] \in {"get", "work", "exited"}

\* is_alive() of a worker process
IsAlive(w) == wpc[w] \in {"get", "work"}

\* the datasets argument: n items that no earlier call was given
NewItems(first, n) == [i \in 1..n |-> first + i]

\* ------------------------------------------------------------ Init
Init ==
    /\ files = [data |-> FALSE, lock |-> FALSE, lst |-> FALSE]
    /\ store = EmptyMap
    /\ manifest = <<>>
    /\ pc = "idle"
    /\ envOpen = FALSE
    /\ counter = 0
    /\ resume = FALSE
    /\ num_workers = 1
    /\ batch_size = 1
    /\ datasets = <<>>
    /\ input_queue = <<>>
    /\ output_queue = <<>>
    /\ wpc = [w \in Workers |-> "none"]
    /\ witem = [w \in Workers |-> None]
    /\ processes = {}
    /\ cache = EmptyMap
    /\ processed_image = NoItem
    /\ processed_count = 0
    /\ loopExc = "none"
    /\ flushExc = FALSE
    /\ runs = 0
    /\ submitted = 0
    /\ base = 0
    /\ failed = {}
    /\ total = 0
    /\ clean = TRUE
    /\ shards = <<>>
    /\ rpc = "none"
    /\ envs = <<>>
    /\ lengths = <<>>
    /\ total_length = 0
    /\ cumulative_lengths = <<>>
    /\ openEnvs = {}
    /\ initErr = "none"
    /\ result = NoRead
    /\ closes = [writer |-> 0, reader |-> 0]
    /\ lmdb_dir = NoDir
    /\ recpc = "none"
    /\ recovery_counter = 0
    /\ file_list = <<>>
    /\ rec_idx = 0
    /\ fetched = {}
    /\ skipped = {}
    /\ out = EmptyMap
    /\ cli = NoRun
    /\ codec = NoCodec
    /\ exec = NoCall

\* ------------------------------------------------------------ LMDBWriter.__init__
\* lines 38-42: with resume off and data.mdb present, data.mdb, lock.mdb and
\* lmdb.lst are removed in this order; os.remove raises on a missing file
ClearExisting(f) ==
    IF ~f.data THEN [files |-> f, ok |-> TRUE]
    ELSE IF ~f.lock THEN [files |-> [f EXCEPT !.data = FALSE], ok |-> FALSE]
    ELSE IF ~f.lst
         THEN [files |-> [f EXCEPT !.data = FALSE, !.lock = FALSE], ok |-> FALSE]
         ELSE [files |-> [data |-> FALSE, lock |-> FALSE, lst |-> FALSE], ok |-> TRUE]

ResetVolatile ==
    /\ datasets' = <<>>
    /\ input_queue' = <<>>
    /\ output_queue' = <<>>
    /\ wpc' = [w \in Workers |-> "none"]
    /\ witem' = [w \in Workers |-> None]
    /\ processes' = {}
    /\ cache' = EmptyMap
    /\ processed_image' = NoItem
    /\ processed_count' = 0
    /\ batch_size' = 1

NewWriter(rs, nw) ==
    /\ pc \in {"idle", "init_failed", "done", "crashed"}
    /\ runs < MaxRuns
    /\ LET cl == IF rs THEN [files |-> files, ok |-> TRUE] ELSE ClearExisting(files)
           st0 == IF cl.files.data THEN store ELSE EmptyMap
           mf0 == IF cl.files.lst THEN manifest ELSE <<>>
       IN  /\ manifest' = mf0
           /\ IF cl.ok
              THEN /\ files' = [cl.files EXCEPT !.data = TRUE, !.lock = TRUE]
                   /\ counter' = IF rs THEN CounterOf(st0) ELSE 0
                   /\ store' = IF rs THEN st0 ELSE Put(st0, CounterKey, IntBytes(0))
                   /\ envOpen' = TRUE
                   /\ pc' = "ready"
              ELSE /\ files' = cl.files
                   /\ counter' = 0
                   /\ store' = st0
                   /\ envOpen' = FALSE
                   /\ pc' = "init_failed"
    /\ resume' = rs
    /\ num_workers' = nw
    /\ ResetVolatile
    /\ loopExc' = "none"
    /\ flushExc' = FALSE
    /\ runs' = runs + 1
    /\ base' = counter'
    /\ total' = IF rs THEN total ELSE 0
    /\ clean' = IF rs THEN clean ELSE TRUE
    /\ UNCHANGED <<submitted, failed>>
    /\ closes' = [closes EXCEPT !.writer = 0]
    /\ UNCHANGED <<readerVars, recoveryVars, toolVars>>

\* ------------------------------------------------------------ create_dataset
\* lines 73-121: fill the input queue, add one None per worker, start the workers
StartCreate(n, bs) ==
    /\ pc = "ready"
    /\ submitted + n <= MaxItems
    /\ datasets' = NewItems(submitted, n)
    /\ submitted' = submitted + n
    /\ batch_size' = bs
    /\ input_queue' = datasets' \o [i \in 1..num_workers |-> None]
    /\ output_queue' = <<>>
    /\ wpc' = [w \in Workers |-> IF w <= num_workers THEN "get" ELSE "none"]
    /\ witem' = [w \in Workers |-> None]
    /\ processes' = 1..num_workers
    /\ processed_count' = 0
    /\ cache' = EmptyMap
    /\ pc' = "loop"
    /\ total' = total + n
    /\ UNCHANGED <<diskVars, writerVars, processed_image, loopExc, flushExc,
                   runs, base, failed, clean>>
    /\ UNCHANGED <<readerVars, closes, recoveryVars, toolVars>>

\* a worker that reads the next item without removing it from the queue
WorkerGetPeek(w) ==
    /\ wpc[w] = "get"
    /\ IF input_queue = <<>>
       THEN /\ wpc' = [wpc EXCEPT ![w] = "exited"]
            /\ UNCHANGED <<input_queue, witem>>
       ELSE IF Head(input_queue) = None
            THEN /\ input_queue' = Tail(input_queue)
                 /\ wpc' = [wpc EXCEPT ![w] = "exited"]
                 /\ UNCHANGED witem
            ELSE /\ input_queue' = input_queue
                 /\ wpc' = [wpc EXCEPT ![w] = "work"]
                 /\ witem' = [witem EXCEPT ![w] = Head(input_queue)]
    /\ UNCHANGED <<diskVars, writerVars, pc, batch_size, datasets, output_queue,
                   processes, cache, processed_image, processed_count, loopExc,
                   flushExc, histVars>>
    /\ UNCHANGED <<readerVars, closes, recoveryVars, toolVars>>

\* lines 85-89 and 108-109: a worker takes the next element of the input queue;
\* None and queue.Empty both end the worker
WorkerGet(w) ==
    /\ wpc[w] = "get"
    /\ IF input_queue = <<>>
       THEN /\ wpc' = [wpc EXCEPT ![w] = "exited"]
            /\ UNCHANGED <<input_queue, witem>>
       ELSE /\ input_queue' = Tail(input_queue)
            /\ IF Head(input_queue) = None
               THEN /\ wpc' = [wpc EXCEPT ![w] = "exited"]
                    /\ UNCHANGED witem
               ELSE /\ wpc' = [wpc EXCEPT ![w] = "work"]
                    /\ witem' = [witem EXCEPT ![w] = Head(input_queue)]
    /\ UNCHANGED <<diskVars, writerVars, pc, batch_size, datasets, output_queue,
                   processes, cache, processed_image, processed_count, loopExc,
                   flushExc, histVars>>
    /\ UNCHANGED <<readerVars, closes, recoveryVars, toolVars>>

\* a worker that writes its result into the store itself
WorkerPutStores(w) ==
    /\ wpc[w] = "work"
    /\ store' = Put(store, ImageKey(counter), Processed(witem[w]).image_bin)
    /\ wpc' = [wpc EXCEPT ![w] = "get"]
    /\ witem' = [witem EXCEPT ![w] = None]
    /\ UNCHANGED <<files, manifest, writerVars, pc, batch_size, datasets,
                   queueVars, processes, cache, processed_image,
                   processed_count, loopExc, flushExc, histVars>>
    /\ UNCHANGED <<readerVars, closes, recoveryVars, toolVars>>

\* lines 91-102: the image is opened and encoded, the result is put on the
\* output queue
WorkerPut(w) ==
    /\ wpc[w] = "work"
    /\ output_queue' = Append(output_queue, Processed(witem[w]))
    /\ wpc' = [wpc EXCEPT ![w] = "get"]
    /\ witem' = [witem EXCEPT ![w] = None]
    /\ UNCHANGED <<diskVars, writerVars, pc, batch_size, datasets, input_queue,
                   processes, cache, processed_image, processed_count, loopExc,
                   flushExc, histVars>>
    /\ UNCHANGED <<readerVars, closes, recoveryVars, toolVars>>

\* lines 104-106: opening or encoding raised; the error is logged and the
\* worker goes on with the next item
WorkerFail(w) ==
    /\ wpc[w] = "work"
    /\ wpc' = [wpc EXCEPT ![w] = "get"]
    /\ witem' = [witem EXCEPT ![w] = None]
    /\ failed' = failed \cup {witem[w]}
    /\ clean' = FALSE
    /\ UNCHANGED <<diskVars, writerVars, pc, batch_size, datasets, queueVars,
                   processes, cache, processed_image, processed_count, loopExc,
                   flushExc, runs, submitted, base, total>>
    /\ UNCHANGED <<readerVars, closes, recoveryVars, toolVars>>

\* lines 123-125 and 146: the loop condition, then output_queue.get(timeout=1)
LoopGet ==
    /\ pc = "loop"
    /\ IF processes = {}
       THEN /\ pc' = "finally"
            /\ UNCHANGED <<output_queue, processed_image>>
       ELSE IF output_queue # <<>>
            THEN /\ processed_image' = Head(output_queue)
                 /\ output_queue' = Tail(output_queue)
                 /\ pc' = "got"
            ELSE /\ pc' = "empty"
                 /\ UNCHANGED <<output_queue, processed_image>>
    /\ UNCHANGED <<diskVars, writerVars, batch_size, datasets, input_queue,
                   workerVars, processes, cache, processed_count, loopExc,
                   flushExc, histVars>>
    /\ UNCHANGED <<readerVars, closes, recoveryVars, toolVars>>

\* lines 128-138: stage image and label under the current counter, append the
\* file name to lmdb.lst, advance the counters, test the size of the cache
Stage ==
    /\ pc = "got"
    /\ cache' = StageLabel(StageImage(cache, counter, processed_image),
                           counter, processed_image)
    /\ manifest' = Append(manifest, processed_image.image_path)
    /\ files' = [files EXCEPT !.lst = TRUE]
    /\ counter' = counter + 1
    /\ processed_count' = processed_count + 1
    /\ pc' = IF Cardinality(DOMAIN cache') >= batch_size THEN "commit" ELSE "filter"
    /\ UNCHANGED <<store, envOpen, resume, num_workers, batch_size, datasets,
                   queueVars, workerVars, processes, processed_image, loopExc,
                   flushExc, histVars>>
    /\ UNCHANGED <<readerVars, closes, recoveryVars, toolVars>>

\* lines 139-140 with _write_cache committing
Commit ==
    /\ pc = "commit"
    /\ store' = WriteCache(store, cache, counter)
    /\ cache' = EmptyMap
    /\ pc' = "filter"
    /\ UNCHANGED <<files, manifest, writerVars, batch_size, datasets, queueVars,
                   workerVars, processes, processed_image, processed_count,
                   loopExc, flushExc, histVars>>
    /\ UNCHANGED <<readerVars, closes, recoveryVars, toolVars>>

\* line 139 with _write_cache raising (lines 175-177): the exception leaves
\* the loop, the cache is not cleared
CommitFail ==
    /\ pc = "commit"
    /\ store' = AbortCache(store, cache, counter)
    /\ loopExc' = "commit"
    /\ clean' = FALSE
    /\ pc' = "finally"
    /\ UNCHANGED <<files, manifest, writerVars, batch_size, datasets, queueVars,
                   workerVars, processes, cache, processed_image,
                   processed_count, flushExc, runs, submitted, base, failed, total>>
    /\ UNCHANGED <<readerVars, closes, recoveryVars, toolVars>>

\* lines 146-148: queue.Empty was raised; break when no process is alive
EmptyCheck ==
    /\ pc = "empty"
    /\ pc' = IF \E w \in processes : IsAlive(w) THEN "filter" ELSE "finally"
    /\ UNCHANGED <<diskVars, writerVars, batch_size, datasets, queueVars,
                   workerVars, processes, cache, processed_image,
                   processed_count, loopExc, flushExc, histVars>>
    /\ UNCHANGED <<readerVars, closes, recoveryVars, toolVars>>

\* line 150: processes = [p for p in processes if p.is_alive()]
AliveOf(ps) == {w \in ps : IsAlive(w)}

Filter ==
    /\ pc = "filter"
    /\ processes' = AliveOf(processes)
    /\ pc' = "loop"
    /\ UNCHANGED <<diskVars, writerVars, batch_size, datasets, queueVars,
                   workerVars, cache, processed_image, processed_count,
                   loopExc, flushExc, histVars>>
    /\ UNCHANGED <<readerVars, closes, recoveryVars, toolVars>>

\* lines 153-156: terminate and join what is left in `processes`
Terminate ==
    /\ pc = "finally"
    /\ wpc' = [w \in Workers |->
                 IF w \in processes /\ IsAlive(w) THEN "terminated" ELSE wpc[w]]
    /\ pc' = "flush"
    /\ UNCHANGED <<diskVars, writerVars, batch_size, datasets, queueVars, witem,
                   processes, cache, processed_image, processed_count, loopExc,
                   flushExc, histVars>>
    /\ UNCHANGED <<readerVars, closes, recoveryVars, toolVars>>

\* a finally block that closes without writing the remaining cache
FinalFlushSkipped(st, c, ctr) == st

\* lines 159-160: if cache: self._write_cache(cache)
FinalFlush(st, c, ctr) == IF c # EmptyMap THEN WriteCache(st, c, ctr) ELSE st

\* lines 159-160 with the commit succeeding, or with an empty cache
Flush ==
    /\ pc = "flush"
    /\ store' = FinalFlush(store, cache, counter)
    /\ pc' = "close"
    /\ UNCHANGED <<files, manifest, writerVars, batch_size, datasets, queueVars,
                   workerVars, processes, cache, processed_image,
                   processed_count, loopExc, flushExc, histVars>>
    /\ UNCHANGED <<readerVars, closes, recoveryVars, toolVars>>

\* lines 159-160 with _write_cache raising: the exception leaves the finally
\* block before self.close()
FlushFail ==
    /\ pc = "flush"
    /\ cache # EmptyMap
    /\ store' = AbortCache(store, cache, counter)
    /\ flushExc' = TRUE
    /\ clean' = FALSE
    /\ pc' = "done"
    /\ UNCHANGED <<files, manifest, writerVars, batch_size, datasets, queueVars,
                   workerVars, processes, cache, processed_image,
                   processed_count, loopExc, runs, submitted, base, failed, total>>
    /\ UNCHANGED <<readerVars, closes, recoveryVars, toolVars>>

\* lines 162 and 179-184: self.close()
Close ==
    /\ pc = "close"
    /\ envOpen' = FALSE
    /\ pc' = "done"
    /\ UNCHANGED <<diskVars, counter, resume, num_workers, batch_size, datasets,
                   queueVars, workerVars, processes, cache, processed_image,
                   processed_count, loopExc, flushExc, histVars>>
    /\ UNCHANGED <<readerVars, closes, recoveryVars, toolVars>>

\* the coordinator's process dies at any point between the construction of
\* the writer and the end of create_dataset: only the files survive
Running == {"ready", "loop", "got", "commit", "empty", "filter", "finally",
            "flush", "close"}

Crash ==
    /\ pc \in Running
    /\ pc' = "crashed"
    /\ envOpen' = FALSE
    /\ ResetVolatile
    /\ clean' = FALSE
    /\ UNCHANGED <<diskVars, counter, resume, num_workers, loopExc, flushExc,
                   runs, submitted, base, failed, total>>
    /\ UNCHANGED <<readerVars, closes, recoveryVars, toolVars>>

Next ==
    \/ \E rs \in BOOLEAN, nw \in 1..MaxWorkers : NewWriter(rs, nw)
    \/ \E n \in 0..MaxItems, bs \in 1..MaxBatch : StartCreate(n, bs)
    \/ \E w \in Workers : WorkerGet(w)
    \/ \E w \in Workers : WorkerPut(w)
    \/ \E w \in Workers : WorkerFail(w)
    \/ LoopGet
    \/ Stage
    \/ Commit
    \/ CommitFail
    \/ EmptyCheck
    \/ Filter
    \/ Terminate
    \/ Flush
    \/ FlushFail
    \/ Close
    \/ Crash

Spec == Init /\ [][Next]_vars

\* ------------------------------------------------------------ coordinator faults
\* lines 131-132 raise (lmdb.lst cannot be opened or written): image and label
\* are staged, the line is not appended, the counter is not advanced
ManifestError ==
    /\ pc = "got"
    /\ cache' = StageLabel(StageImage(cache, counter, processed_image),
                           counter, processed_image)
    /\ loopExc' = "manifest"
    /\ clean' = FALSE
    /\ pc' = "finally"
    /\ UNCHANGED <<diskVars, writerVars, batch_size, datasets, queueVars,
                   workerVars, processes, processed_image, processed_count,
                   flushExc, runs, submitted, base, failed, total>>
    /\ UNCHANGED <<readerVars, closes, recoveryVars, toolVars>>

\* KeyboardInterrupt raised in the coordinator between two iterations, while it
\* waits for a result, or inside the write transaction (which is then aborted)
InterruptLoop ==
    /\ pc \in {"loop", "empty", "filter", "commit"}
    /\ loopExc' = "interrupt"
    /\ clean' = FALSE
    /\ pc' = "finally"
    /\ UNCHANGED <<diskVars, writerVars, batch_size, datasets, queueVars,
                   workerVars, processes, cache, processed_image,
                   processed_count, flushExc, runs, submitted, base, failed, total>>
    /\ UNCHANGED <<readerVars, closes, recoveryVars, toolVars>>

\* KeyboardInterrupt raised inside lines 128-134, after k of the four
\* statements (stage image, stage label, append to lmdb.lst, self.counter += 1)
InterruptStage(k) ==
    /\ pc = "got"
    /\ cache' = IF k >= 2
                THEN StageLabel(StageImage(cache, counter, processed_image),
                                counter, processed_image)
                ELSE IF k = 1 THEN StageImage(cache, counter, processed_image)
                ELSE cache
    /\ manifest' = IF k >= 3 THEN Append(manifest, processed_image.image_path)
                   ELSE manifest
    /\ files' = IF k >= 3 THEN [files EXCEPT !.lst = TRUE] ELSE files
    /\ counter' = IF k >= 4 THEN counter + 1 ELSE counter
    /\ loopExc' = "interrupt"
    /\ clean' = FALSE
    /\ pc' = "finally"
    /\ UNCHANGED <<store, envOpen, resume, num_workers, batch_size, datasets,
                   queueVars, workerVars, processes, processed_image,
                   processed_count, flushExc, runs, submitted, base, failed, total>>
    /\ UNCHANGED <<readerVars, closes, recoveryVars, toolVars>>

NextErr ==
    \/ Next
    \/ ManifestError

SpecErr == Init /\ [][NextErr]_vars

NextInt ==
    \/ NextErr
    \/ InterruptLoop
    \/ \E k \in 0..4 : InterruptStage(k)

SpecInt == Init /\ [][NextInt]_vars

\* lines 111-116 raising: p.start() of worker k + 1 fails (the operating system
\* refuses another process) after k workers were started.  The start loop is
\* outside the try block that begins at line 119, so the exception leaves
\* create_dataset without the finally block: nothing is terminated or closed.
StartFail(n, bs, k) ==
    /\ pc = "ready"
    /\ submitted + n <= MaxItems
    /\ k < num_workers
    /\ datasets' = NewItems(submitted, n)
    /\ submitted' = submitted + n
    /\ batch_size' = bs
    /\ input_queue' = datasets' \o [i \in 1..num_workers |-> None]
    /\ output_queue' = <<>>
    /\ wpc' = [w \in Workers |-> IF w <= k THEN "get" ELSE "none"]
    /\ witem' = [w \in Workers |-> None]
    /\ processes' = 1..k
    /\ loopExc' = "start"
    /\ clean' = FALSE
    /\ pc' = "done"
    /\ total' = total + n
    /\ UNCHANGED <<diskVars, writerVars, cache, processed_image,
                   processed_count, flushExc, runs, base, failed>>
    /\ UNCHANGED <<readerVars, closes, recoveryVars, toolVars>>

NextStart ==
    \/ NextErr
    \/ pc = "ready" /\ \E n \in 0..MaxItems, bs \in 1..MaxBatch, k \in 0..(MaxWorkers - 1) :
           StartFail(n, bs, k)

SpecStart == Init /\ [][NextStart]_vars

\* ------------------------------------------------------------ scheduling
\* The coordinator and every worker are processes of their own: the operating
\* system runs each of them again and again while it has a step to take.  A
\* crash of the coordinator is never forced.
CoordinatorStep ==
    \/ LoopGet
    \/ Stage
    \/ Commit
    \/ CommitFail
    \/ EmptyCheck
    \/ Filter
    \/ Terminate
    \/ Flush
    \/ FlushFail
    \/ Close

WorkerStep(w) ==
    \/ WorkerGet(w)
    \/ WorkerPut(w)
    \/ WorkerFail(w)

Fairness ==
    /\ WF_vars(CoordinatorStep)
    /\ \A w \in Workers : WF_vars(WorkerStep(w))

\* one writer and its create_dataset call: whether the call ends does not
\* depend on what earlier writers left in the shard
NextLive ==
    \/ \E rs \in BOOLEAN, nw \in 1..MaxWorkers : runs = 0 /\ NewWriter(rs, nw)
    \/ \E n \in 0..MaxItems, bs \in 1..MaxBatch : StartCreate(n, bs)
    \/ \E w \in Workers : WorkerStep(w)
    \/ CoordinatorStep
    \/ Crash

SpecLive == Init /\ [][NextLive]_vars /\ Fairness

\* ------------------------------------------------------------ LMDBReader
\* sum(self.lengths[:i])
RECURSIVE SumTo(_, _)
SumTo(lens, i) == IF i = 0 THEN 0 ELSE lens[i] + SumTo(lens, i - 1)

\* lines 208-210: one length per environment
ReaderLengths(stores) == [i \in 1..Len(stores) |-> CounterOf(stores[i])]

\* line 212
TotalLength(stores) == SumTo(ReaderLengths(stores), Len(stores))

\* prefix sums that include the shard itself
CumulativeLengthsInclusive(stores) ==
    [i \in 1..(Len(stores) + 1) |->
        SumTo(ReaderLengths(stores), IF i <= Len(stores) THEN i ELSE Len(stores))]

\* line 216: cumulative_lengths[i] (0-based in the code, 1-based here)
CumulativeLengths(stores) ==
    [i \in 1..(Len(stores) + 1) |-> SumTo(ReaderLengths(stores), i - 1)]

ReadError(e) == [err |-> e, image |-> <<>>, label |-> <<>>]

\* a __getitem__ with Python's negative indexing: idx < 0 counts from the end
GetItemNegative(stores, idx) ==
    LET x == IF idx < 0 THEN idx + TotalLength(stores) ELSE idx
    IN  IF x < 0 \/ x >= TotalLength(stores) THEN ReadError("IndexError")
        ELSE LET cum == CumulativeLengths(stores)
                 lmdb_index ==
                     IF Len(stores) = 1 THEN 1
                     ELSE CHOOSE i \in 1..Len(stores) :
                            /\ cum[i] <= x /\ x < cum[i + 1]
                            /\ \A j \in 1..(i - 1) : ~(cum[j] <= x /\ x < cum[j + 1])
                 local_idx == IF Len(stores) = 1 THEN x ELSE x - cum[lmdb_index]
                 env == stores[lmdb_index]
             IN  IF ImageKey(local_idx) \notin DOMAIN env THEN ReadError("KeyError")
                 ELSE IF LabelKey(local_idx) \notin DOMAIN env
                      THEN ReadError("AttributeError")
                      ELSE [err |-> "none",
                            image |-> bytes2pil(env[ImageKey(local_idx)]),
                            label |-> bytes2str(env[LabelKey(local_idx)])]

\* LMDBReader.__getitem__
GetItem(stores, idx) ==
    IF idx < 0 \/ idx >= TotalLength(stores) THEN ReadError("IndexError")
    ELSE LET cum == CumulativeLengths(stores)
             lmdb_index ==
                 IF Len(stores) = 1 THEN 1
                 ELSE CHOOSE i \in 1..Len(stores) :
                        /\ cum[i] <= idx /\ idx < cum[i + 1]
                        /\ \A j \in 1..(i - 1) : ~(cum[j] <= idx /\ idx < cum[j + 1])
             local_idx == IF Len(stores) = 1 THEN idx ELSE idx - cum[lmdb_index]
             env == stores[lmdb_index]
         IN  IF ImageKey(local_idx) \notin DOMAIN env THEN ReadError("KeyError")
             ELSE IF LabelKey(local_idx) \notin DOMAIN env
                  THEN ReadError("AttributeError")
                  ELSE [err |-> "none",
                        image |-> bytes2pil(env[ImageKey(local_idx)]),
                        label |-> bytes2str(env[LabelKey(local_idx)])]

\* ------------------------------------------------------------ shard directories
\* the processed dict of the item stored at index i of the shard at position p
ShardRecord(p, i) == Processed(10 * p + i + 1)

\* lines 128-129 for the records `present` of the shard at position p
ShardCache(p, present) ==
    [k \in {ImageKey(i) : i \in present} \cup {LabelKey(i) : i \in present} |->
        IF k[1] = "image-" THEN ShardRecord(p, k[2]).image_bin
        ELSE str2bytes(ShardRecord(p, k[2]).label)]

\* the store of a shard that holds the records `present` and the counter ctr
ShardStore(p, present, ctr) == WriteCache(EmptyMap, ShardCache(p, present), ctr)

\* a path handed to LMDBReader: missing, or a shard of len records; hole >= 0
\* is an index below len whose image and label keys are gone
ShardShapes ==
    {[exists |-> FALSE, len |-> 0, hole |-> -1]} \cup
    {sh \in [exists : {TRUE}, len : 0..MaxLen, hole : -1..(MaxLen - 1)] :
        sh.hole < sh.len}

ReaderShard(p, shape) ==
    [exists |-> shape.exists,
     store |-> IF shape.exists
               THEN ShardStore(p, (0..(shape.len - 1)) \ {shape.hole}, shape.len)
               ELSE EmptyMap]

\* the lmdb_paths argument: up to MaxShards paths
ReaderPaths ==
    {[p \in 1..Len(shapes) |-> ReaderShard(p, shapes[p])] :
        shapes \in UNION {[1..n -> ShardShapes] : n \in 0..MaxShards}}

\* the directory the writer of this model works on, as a reader finds it
DiskShard == [exists |-> files.data, store |-> store]

\* ------------------------------------------------------------ LMDBReader object
\* a close() that leaves the environments open
CloseEnvsNone(open, es) == open

\* lines 256-260: env.close() for every env of self.envs
CloseEnvs(open, es) == open \ {es[i] : i \in 1..Len(es)}

\* lines 202-204: the first path of the list that does not exist (0 if none)
FirstMissing(sh) ==
    IF \A p \in 1..Len(sh) : sh[p].exists THEN 0
    ELSE CHOOSE p \in 1..Len(sh) :
            ~sh[p].exists /\ \A q \in 1..(p - 1) : sh[q].exists

\* the stores behind a list of environments
StoresOf(sh, es) == [i \in 1..Len(es) |-> sh[es[i]].store]

\* LMDBReader.__init__ over the directories sh: the environments are opened
\* in order; a missing path raises, the except clause closes what was opened
ReaderInit(sh) ==
    /\ rpc = "none"
    /\ shards' = sh
    /\ LET bad == FirstMissing(sh)
           n == IF bad = 0 THEN Len(sh) ELSE bad - 1
           opened == [p \in 1..n |-> p]
           stores == StoresOf(sh, opened)
       IN  /\ lengths' = ReaderLengths(stores)
           /\ IF bad = 0
              THEN /\ envs' = opened
                   /\ openEnvs' = 1..n
                   /\ total_length' = TotalLength(stores)
                   /\ cumulative_lengths' =
                         IF Len(sh) > 1 THEN CumulativeLengths(stores) ELSE <<>>
                   /\ initErr' = "none"
                   /\ rpc' = "open"
              ELSE /\ envs' = <<>>
                   /\ openEnvs' = CloseEnvs(1..n, opened)
                   /\ total_length' = 0
                   /\ cumulative_lengths' = <<>>
                   /\ initErr' = "FileNotFoundError"
                   /\ rpc' = "failed"
    /\ UNCHANGED <<pipelineVars, result, closes, recoveryVars, toolVars>>

\* a __getitem__ that releases the environments when the read fails
ReaderGetClosing(i) ==
    /\ rpc = "open"
    /\ LET r == GetItem(StoresOf(shards, envs), i)
       IN  /\ result' = [idx |-> i, err |-> r.err, image |-> r.image, label |-> r.label]
           /\ envs' = IF r.err = "none" THEN envs ELSE <<>>
           /\ openEnvs' = IF r.err = "none" THEN openEnvs ELSE {}
    /\ UNCHANGED <<pipelineVars, shards, rpc, lengths, total_length,
                   cumulative_lengths, initErr, closes, recoveryVars, toolVars>>

\* LMDBReader.__getitem__(i): the record, or the exception raised
ReaderGet(i) ==
    /\ rpc = "open"
    /\ LET r == GetItem(StoresOf(shards, envs), i)
       IN  result' = [idx |-> i, err |-> r.err, image |-> r.image, label |-> r.label]
    /\ UNCHANGED <<pipelineVars, shards, rpc, envs, lengths, total_length,
                   cumulative_lengths, openEnvs, initErr, closes, recoveryVars,
                   toolVars>>

\* a close() that fails on a reader that is closed already
ReaderCloseOnce ==
    /\ rpc \in {"open", "closed"}
    /\ closes.reader < MaxCloses
    /\ openEnvs' = CloseEnvs(openEnvs, envs)
    /\ envs' = <<>>
    /\ rpc' = IF rpc = "closed" THEN "failed" ELSE "closed"
    /\ closes' = [closes EXCEPT !.reader = @ + 1]
    /\ UNCHANGED <<pipelineVars, shards, lengths, total_length,
                   cumulative_lengths, initErr, result, recoveryVars, toolVars>>

\* LMDBReader.close(): every environment of self.envs is closed, errors are
\* logged, self.envs becomes []
ReaderClose ==
    /\ rpc \in {"open", "closed"}
    /\ closes.reader < MaxCloses
    /\ openEnvs' = CloseEnvs(openEnvs, envs)
    /\ envs' = <<>>
    /\ rpc' = "closed"
    /\ closes' = [closes EXCEPT !.reader = @ + 1]
    /\ UNCHANGED <<pipelineVars, shards, lengths, total_length,
                   cumulative_lengths, initErr, result, recoveryVars, toolVars>>

\* LMDBReader.__exit__: self.close()
ReaderExit == ReaderClose

\* a reader is constructed and read from; close() is part of NextClose below
NextRead ==
    \/ rpc = "none" /\ \E sh \in ReaderPaths : ReaderInit(sh)
    \/ rpc = "open" /\ \E i \in -1..(total_length + 1) : ReaderGet(i)

SpecRead == Init /\ [][NextRead]_vars

\* ------------------------------------------------------------ close() after use
\* LMDBWriter.close() called on a writer whose create_dataset has ended:
\* env.close() inside try/except, closing a closed environment does nothing
WriterClose ==
    /\ pc = "done"
    /\ closes.writer < MaxCloses
    /\ envOpen' = FALSE
    /\ closes' = [closes EXCEPT !.writer = @ + 1]
    /\ UNCHANGED <<diskVars, counter, resume, num_workers, pc, batch_size,
                   datasets, queueVars, workerVars, processes, cache,
                   processed_image, processed_count, loopExc, flushExc,
                   histVars, readerVars, recoveryVars, toolVars>>

\* a reader is opened on the writer's path once no writer works on it, and
\* no writer is constructed on the path after that
NextClose ==
    \/ \E rs \in BOOLEAN, nw \in 1..MaxWorkers : rpc = "none" /\ NewWriter(rs, nw)
    \/ \E n \in 0..MaxItems, bs \in 1..MaxBatch : StartCreate(n, bs)
    \/ \E w \in Workers : WorkerStep(w)
    \/ CoordinatorStep
    \/ Crash
    \/ WriterClose
    \/ pc \in {"idle", "init_failed", "done", "crashed"} /\ ReaderInit(<<DiskShard>>)
    \/ ReaderClose
    \/ ReaderExit

SpecClose == Init /\ [][NextClose]_vars

\* ------------------------------------------------------------ LMDBRecovery
\* the file names lmdb.lst can hold: basenames of submitted paths; paths of
\* different directories, or the same path in two runs, give the same name
Names == {Basename(ItemPath(i)) : i \in 1..MaxNames}

\* the lmdb_path argument: a missing directory, a shard without lmdb.lst, or a
\* shard with any counter, any set of image indices and any manifest
RecoveryDirs ==
    {NoDir} \cup
    {[exists |-> TRUE, store |-> ShardStore(1, {}, 0), lst |-> FALSE,
      manifest |-> <<>>]} \cup
    {[exists |-> TRUE, store |-> ShardStore(1, present, c), lst |-> TRUE,
      manifest |-> m] :
        present \in SUBSET (0..MaxLen), c \in 0..MaxLen,
        m \in UNION {[1..n -> Names] : n \in 0..(MaxLen + 1)}}

\* LMDBRecovery.__init__: FileNotFoundError for a missing lmdb_path (line 277)
\* and for a missing lmdb.lst (line 295); else the counter and the lines of
\* lmdb.lst are read
RecoveryInit(d) ==
    /\ recpc = "none"
    /\ lmdb_dir' = d
    /\ recovery_counter' = IF d.exists THEN CounterOf(d.store) ELSE 0
    /\ file_list' = IF d.exists /\ d.lst THEN d.manifest ELSE <<>>
    /\ recpc' = IF d.exists /\ d.lst THEN "ready" ELSE "failed"
    /\ UNCHANGED <<pipelineVars, readerVars, closes, rec_idx, fetched, skipped,
                   out, toolVars>>

\* lines 302-311: one iteration of `for idx, image_path in
\* enumerate(self.file_list)`: image-<idx> is fetched; a missing image is
\* logged and skipped, else its bytes are written to output_path/image_path
RecoverImage ==
    /\ recpc \in {"ready", "recovering"}
    /\ rec_idx < Len(file_list)
    /\ fetched' = fetched \cup {rec_idx}
    /\ IF ImageKey(rec_idx) \in DOMAIN lmdb_dir.store
       THEN /\ out' = Put(out, file_list[rec_idx + 1], lmdb_dir.store[ImageKey(rec_idx)])
            /\ UNCHANGED skipped
       ELSE /\ skipped' = skipped \cup {rec_idx}
            /\ UNCHANGED out
    /\ rec_idx' = rec_idx + 1
    /\ recpc' = "recovering"
    /\ UNCHANGED <<pipelineVars, readerVars, closes, lmdb_dir, recovery_counter,
                   file_list, toolVars>>

\* the end of the loop of recover_images
RecoverEnd ==
    /\ recpc \in {"ready", "recovering"}
    /\ rec_idx = Len(file_list)
    /\ recpc' = "done"
    /\ UNCHANGED <<pipelineVars, readerVars, closes, lmdb_dir, recovery_counter,
                   file_list, rec_idx, fetched, skipped, out, toolVars>>

NextRecover ==
    \/ recpc = "none" /\ \E d \in RecoveryDirs : RecoveryInit(d)
    \/ RecoverImage
    \/ RecoverEnd

SpecRecover == Init /\ [][NextRecover]_vars

\* ------------------------------------------------------------ run_writer
\* What the configuration says about one listed dataset: "ok" passes every
\* check of lines 43-66, each other kind fails exactly one of them.
Kinds == {"ok", "unknown_name", "missing_params", "no_image_dir",
          "no_json_dir", "bad_type"}

\* dataset_lst of line 40: str.split(',') gives at least one name
Configs == UNION {[1..n -> Kinds] : n \in 1..MaxDatasets}

\* lines 43-66: the exception the checks of one dataset raise
SetupError(kind) ==
    IF kind \in {"unknown_name", "missing_params", "bad_type"} THEN "ValueError"
    ELSE IF kind \in {"no_image_dir", "no_json_dir"} THEN "FileNotFoundError"
    ELSE "none"

\* lines 26-41: the configuration is loaded, the loop starts at the first name
RunWriter(cfg) ==
    /\ cli.pc = "none"
    /\ cli' = [dataset_lst |-> cfg, name_idx |-> 1, pc |-> "check",
               err |-> "none", outputs |-> [i \in 1..Len(cfg) |-> "old"]]
    /\ UNCHANGED <<pipelineVars, readerVars, closes, recoveryVars, codec, exec>>

\* lines 43-66 for dataset_lst[name_idx]: name, parameters, directories, type
CheckDataset ==
    /\ cli.pc = "check"
    /\ cli' = [cli EXCEPT
                 !.err = SetupError(cli.dataset_lst[cli.name_idx]),
                 !.pc = IF SetupError(cli.dataset_lst[cli.name_idx]) = "none"
                        THEN "write" ELSE "raised"]
    /\ UNCHANGED <<pipelineVars, readerVars, closes, recoveryVars, codec, exec>>

\* line 70, process_and_write_lmdb: LMDBWriter(output, resume=False) clears
\* the shard, create_dataset fills it; the loop goes on to the next name
WriteDataset ==
    /\ cli.pc = "write"
    /\ cli' = [cli EXCEPT
                 !.outputs[cli.name_idx] = "written",
                 !.name_idx = cli.name_idx + 1,
                 !.pc = IF cli.name_idx = Len(cli.dataset_lst)
                        THEN "done" ELSE "check"]
    /\ UNCHANGED <<pipelineVars, readerVars, closes, recoveryVars, codec, exec>>

\* line 70 raising after the writer cleared the shard; lines 73-75 log and
\* re-raise
WriteDatasetFail ==
    /\ cli.pc = "write"
    /\ cli' = [cli EXCEPT
                 !.outputs[cli.name_idx] = "cleared",
                 !.err = "write",
                 !.pc = "raised"]
    /\ UNCHANGED <<pipelineVars, readerVars, closes, recoveryVars, codec, exec>>

NextCli ==
    \/ cli.pc = "none" /\ \E cfg \in Configs : RunWriter(cfg)
    \/ CheckDataset
    \/ WriteDataset
    \/ WriteDatasetFail

SpecCli == Init /\ [][NextCli]_vars

\* ------------------------------------------------------------ image codec
\* the images handed to pil2bytes: every mode, sides from 0 to MaxSide
Images ==
    [mode : Modes, size : (0..MaxSide) \X (0..MaxSide), px : 1..2]

GiveImage(pil) ==
    /\ codec.pc = "none"
    /\ codec' = [codec EXCEPT !.img = pil, !.pc = "given"]
    /\ UNCHANGED <<pipelineVars, readerVars, closes, recoveryVars, cli, exec>>

\* utils.pil2bytes(img): returns the stream or raises
Encode ==
    /\ codec.pc = "given"
    /\ codec' = IF Accepted(codec.img)
                THEN [codec EXCEPT !.bytes = pil2bytes(codec.img),
                                   !.pc = "encoded"]
                ELSE [codec EXCEPT !.pc = "rejected"]
    /\ UNCHANGED <<pipelineVars, readerVars, closes, recoveryVars, cli, exec>>

\* utils.bytes2pil of the stream pil2bytes returned
Decode ==
    /\ codec.pc = "encoded"
    /\ codec' = [codec EXCEPT !.back = bytes2pil(codec.bytes), !.pc = "decoded"]
    /\ UNCHANGED <<pipelineVars, readerVars, closes, recoveryVars, cli, exec>>

NextCodec ==
    \/ codec.pc = "none" /\ \E pil \in Images : GiveImage(pil)
    \/ Encode
    \/ Decode

SpecCodec == Init /\ [][NextCodec]_vars

\* ------------------------------------------------------------ multiprocess_exec
\* the function run on every argument
func(arg) == <<"f", arg>>

\* line 23
ChunkSize(a, np) == Len(a) \div np + (IF Len(a) % np # 0 THEN 1 ELSE 0)

\* the number of elements of range(0, len(args), chunk_size)
NumChunks(a, np) ==
    (Len(a) + ChunkSize(a, np) - 1) \div ChunkSize(a, np)

\* line 26: args[i:i + chunk_size] for every start i of the range
ArgChunks(a, np) ==
    [k \in 1..NumChunks(a, np) |->
        SubSeq(a, (k - 1) * ChunkSize(a, np) + 1,
               IF k * ChunkSize(a, np) < Len(a) THEN k * ChunkSize(a, np)
               ELSE Len(a))]

\* lines 30-34: what the worker of chunk k puts on the queue, the list of
\* results or the exception func raised
ChunkResult(k) ==
    IF \E i \in 1..Len(exec.arg_chunks[k]) : exec.arg_chunks[k][i] \in exec.fails
    THEN [chunk |-> k, kind |-> "exc", val |-> <<>>]
    ELSE [chunk |-> k, kind |-> "ok",
          val |-> [i \in 1..Len(exec.arg_chunks[k]) |->
                      func(exec.arg_chunks[k][i])]]

\* lines 19-41: the chunks are cut and one process per chunk is started;
\* range() raises ValueError when chunk_size is 0
Exec(a, np, bad, ft) ==
    /\ exec.pc = "none"
    /\ exec' = IF ChunkSize(a, np) = 0
               THEN [NoCall EXCEPT !.args = a, !.num_processes = np,
                                   !.fails = bad, !.fits = ft,
                                   !.err = "ValueError", !.pc = "raised"]
               ELSE [NoCall EXCEPT !.args = a, !.num_processes = np,
                                   !.fails = bad, !.fits = ft,
                                   !.arg_chunks = ArgChunks(a, np),
                                   !.procs = [k \in 1..NumChunks(a, np) |-> "run"],
                                   !.pc = "join"]
    /\ UNCHANGED <<pipelineVars, readerVars, closes, recoveryVars, cli, codec>>

\* lines 30-34 in the process of chunk k: the result is put on the queue
ExecWorkerPut(k) ==
    /\ k \in DOMAIN exec.procs
    /\ exec.procs[k] = "run"
    /\ exec' = [exec EXCEPT
                  !.result_queue = Append(exec.result_queue, ChunkResult(k)),
                  !.procs[k] = "flush"]
    /\ UNCHANGED <<pipelineVars, readerVars, closes, recoveryVars, cli, codec>>

\* the process of chunk k ends once the feeder thread of the queue has
\* written its result into the pipe: at once when the result fits the buffer
\* of the pipe, otherwise only after the parent has taken it from the queue
ExecWorkerExit(k) ==
    /\ k \in DOMAIN exec.procs
    /\ exec.procs[k] = "flush"
    /\ \/ exec.fits
       \/ ChunkResult(k).kind = "exc"
       \/ \A i \in 1..Len(exec.result_queue) : exec.result_queue[i].chunk # k
    /\ exec' = [exec EXCEPT !.procs[k] = "exited"]
    /\ UNCHANGED <<pipelineVars, readerVars, closes, recoveryVars, cli, codec>>

\* lines 44-45: p.join() for every process returns when all have ended
Join ==
    /\ exec.pc = "join"
    /\ \A k \in DOMAIN exec.procs : exec.procs[k] = "exited"
    /\ exec' = [exec EXCEPT !.pc = "collect"]
    /\ UNCHANGED <<pipelineVars, readerVars, closes, recoveryVars, cli, codec>>

\* lines 49-55: one result_queue.get() per chunk; an exception taken from the
\* queue is raised, a list of results is appended; return after the last
Collect ==
    /\ exec.pc = "collect"
    /\ IF exec.gets = Len(exec.arg_chunks)
       THEN exec' = [exec EXCEPT !.pc = "returned"]
       ELSE /\ exec.result_queue # <<>>
            /\ IF Head(exec.result_queue).kind = "exc"
               THEN exec' = [exec EXCEPT
                               !.result_queue = Tail(exec.result_queue),
                               !.err = "func",
                               !.pc = "raised"]
               ELSE exec' = [exec EXCEPT
                               !.result_queue = Tail(exec.result_queue),
                               !.results = exec.results \o Head(exec.result_queue).val,
                               !.gets = exec.gets + 1]
    /\ UNCHANGED <<pipelineVars, readerVars, closes, recoveryVars, cli, codec>>

NextExec ==
    \/ exec.pc = "none" /\ \E n \in 0..MaxArgs, np \in 1..MaxProcesses, ft \in BOOLEAN :
                             \E bad \in SUBSET (1..n) :
                                 Exec([i \in 1..n |-> i], np, bad, ft)
    \/ \E k \in 1..MaxProcesses : ExecWorkerPut(k)
    \/ \E k \in 1..MaxProcesses : ExecWorkerExit(k)
    \/ Join
    \/ Collect

SpecExec == Init /\ [][NextExec]_vars

\* ------------------------------------------------------------ properties
Returned == pc = "done" /\ loopExc = "none" /\ ~flushExc
RangeOf(seq) == {seq[i] : i \in 1..Len(seq)}
AllItems == 1..MaxItems
InStore(k, c) == k \in DOMAIN store /\ store[k] = c[k]

\* C1: the persisted __counter__ equals the number of image-* keys of the
\* store, and these keys are exactly image-0 .. image-(counter-1), whatever
\* runs (fresh or resumed, with failing items, ended by return, by a commit
\* failure or by a crash) produced the shard.
C1_CounterIsImageCount ==
    /\ CounterOf(store) = Cardinality(ImageKeys(store))
    /\ ImageKeys(store) = {ImageKey(i) : i \in 0..(CounterOf(store) - 1)}

C1_Witness ==
    /\ pc = "done" /\ resume /\ flushExc /\ loopExc = "commit"
    /\ CounterOf(store) >= 1

\* C2: at every instant, also after a crash, every index below the persisted
\* __counter__ has both its image and its label in the committed store.
C2_CounterNeverAhead ==
    \A i \in 0..(CounterOf(store) - 1) :
        ImageKey(i) \in DOMAIN store /\ LabelKey(i) \in DOMAIN store

C2_Witness ==
    /\ pc = "crashed" /\ CounterOf(store) >= 1
    /\ Len(manifest) > CounterOf(store)

\* C3: when create_dataset returns, the output queue is empty, and N items
\* that all processed successfully on a fresh shard give counter N and an
\* out-of-range error for index N.
C3_AllResultsCommitted ==
    Returned =>
        /\ output_queue = <<>>
        /\ (clean /\ ~resume) =>
              /\ CounterOf(store) = Len(datasets)
              /\ GetItem(<<store>>, Len(datasets)).err = "IndexError"

\* C4: after N items on a fresh shard and M more items with resume on, all
\* processed successfully, the counter is N + M, the second run started at
\* index N and every index below N + M is readable.
C4_ResumeAddsUp ==
    (Returned /\ clean /\ resume /\ runs = 2 /\ base >= 1
        /\ base = total - Len(datasets)) =>
        /\ CounterOf(store) = total
        /\ \A i \in 0..(total - 1) : GetItem(<<store>>, i).err = "none"

\* C5: after any sequence of runs, for every index i below the counter,
\* image-i and label-i come from one submitted item and line i of lmdb.lst
\* is the file name of that item.
C5_ManifestNamesRecord ==
    pc \in {"done", "crashed"} =>
        \A i \in 0..(CounterOf(store) - 1) :
            /\ ImageKey(i) \in DOMAIN store
            /\ LabelKey(i) \in DOMAIN store
            /\ i + 1 <= Len(manifest)
            /\ \E item \in AllItems :
                  /\ store[ImageKey(i)] = Processed(item).image_bin
                  /\ store[LabelKey(i)] = str2bytes(Processed(item).label)
                  /\ manifest[i + 1] = Processed(item).image_path

\* C6: a failing item gets no store entry and no manifest line, and when the
\* run returns every other item of the run is stored, at consecutive indices.
C6_FailureIsLocal ==
    (Returned /\ RangeOf(datasets) \cap failed # {}) =>
        /\ \A item \in failed :
              /\ \A k \in ImageKeys(store) : store[k] # Processed(item).image_bin
              /\ \A i \in 1..Len(manifest) : manifest[i] # Processed(item).image_path
        /\ \A item \in RangeOf(datasets) \ failed :
              \E i \in 0..(CounterOf(store) - 1) :
                  /\ ImageKey(i) \in DOMAIN store
                  /\ store[ImageKey(i)] = Processed(item).image_bin
        /\ ImageKeys(store) = {ImageKey(i) : i \in 0..(CounterOf(store) - 1)}

\* C7 as stated: when the loop was left by an error, everything staged in the
\* cache is in the store once create_dataset has ended.
C7_StagedNeverLost ==
    (pc = "done" /\ loopExc \in {"commit", "manifest"}) =>
        \A k \in DOMAIN cache : InStore(k, cache)

\* C7 as amended: when the loop was left by an error, the final flush runs
\* before the store is closed, and everything staged in the cache is in the
\* store afterwards unless the commit of that final flush fails too.
C7_StagedKeptIfFlushCommits ==
    (pc \in {"close", "done"} /\ loopExc \in {"commit", "manifest"} /\ ~flushExc) =>
        \A k \in DOMAIN cache : InStore(k, cache)

C7_Witness ==
    /\ pc = "done" /\ loopExc = "manifest" /\ ~flushExc
    /\ cache # EmptyMap
    /\ \E w \in Workers : wpc[w] = "terminated"

\* C8: after an interrupt anywhere in the coordinator loop the final flush is
\* done and the persisted counter equals the number of image-* keys.
C8_InterruptKeepsCounter ==
    (pc = "done" /\ loopExc = "interrupt" /\ ~flushExc) =>
        /\ \A k \in DOMAIN cache : InStore(k, cache)
        /\ CounterOf(store) = Cardinality(ImageKeys(store))

\* C9: once a commit has failed, neither self.counter nor the persisted
\* __counter__ exceeds the number of records of the last successful commit.
C9_CounterNotPastCommit ==
    (loopExc = "commit" \/ flushExc) =>
        /\ CounterOf(store) <= Cardinality(ImageKeys(store))
        /\ counter <= Cardinality(ImageKeys(store))

\* C10: when create_dataset has returned or raised, the environment is closed.
C10_ClosedOnEveryExit == pc = "done" => ~envOpen

\* C11: a writer opened with resume off always gets a fresh empty shard: the
\* open succeeds, the counter is 0 in the object and in the store, no record
\* and no manifest line of an earlier run is left.
C11_FreshOpenAlwaysEmpty ==
    (pc \in {"ready", "init_failed"} /\ ~resume) =>
        /\ pc = "ready"
        /\ envOpen
        /\ counter = 0
        /\ CounterOf(store) = 0
        /\ ImageKeys(store) = {}
        /\ manifest = <<>>
        /\ ~files.lst

\* C12: the store, the manifest and the files of the shard change only in a
\* step of the coordinator that is LMDBWriter.__init__ or a _write_cache call
\* (the manifest: the append of the collect loop); a step of a worker process
\* leaves all of them as they are.
C12_WorkerMoved ==
    \E w \in Workers :
        /\ wpc[w] \in {"get", "work"}
        /\ wpc'[w] \in {"get", "work", "exited"}
        /\ wpc'[w] # wpc[w]

C12_OnlyCoordinatorWrites ==
    [][/\ C12_WorkerMoved => UNCHANGED diskVars
       /\ store' # store =>
             /\ pc \in {"idle", "init_failed", "done", "crashed", "commit", "flush"}
             /\ pc' # pc
       /\ manifest' # manifest =>
             pc \in {"idle", "init_failed", "done", "crashed", "got"}]_vars

C12_Witness ==
    /\ pc = "filter" /\ CounterOf(store) >= 1
    /\ \E w \in Workers : wpc[w] = "work"

\* C13: every create_dataset call that has started its collect loop ends
\* (returns, raises, or the process dies), and by then no worker process is
\* alive, whatever the number of items and of workers and however many
\* items fail.
C13_CreateDatasetTerminates ==
    (pc = "loop") ~>
        (pc \in {"done", "crashed"} /\ \A w \in Workers : ~IsAlive(w))

C13_Witness ==
    /\ Returned /\ Len(datasets) < num_workers
    /\ RangeOf(datasets) \cap failed # {}
    /\ \A w \in Workers : ~IsAlive(w)

\* ------------------------------------------------------------ reader properties
\* offsets[p - 1] of the shards the reader was given: the counters before p
Offset(p) == SumTo([q \in 1..Len(shards) |-> CounterOf(shards[q].store)], p - 1)
Holds(p, x) == Offset(p) <= x /\ x < Offset(p + 1)
WellFormed(st) ==
    /\ ImageKeys(st) = {ImageKey(i) : i \in 0..(CounterOf(st) - 1)}
    /\ LabelKeys(st) = {LabelKey(i) : i \in 0..(CounterOf(st) - 1)}
HasRead == rpc = "open" /\ result.err # "unread"

\* C14: a reader opened over any list of shards (empty shards included) has
\* the sum of their counters as length, and a read of a logical index x in
\* range resolves the one shard p with offsets[p] <= x < offsets[p+1] and
\* gives the record at local index x - offsets[p] of that shard; with two
\* shards A and B, reader[a + k] is what a reader of B alone gives for k.
C14_Concatenation ==
    rpc = "open" =>
        /\ total_length = Offset(Len(shards) + 1)
        /\ (HasRead /\ 0 <= result.idx /\ result.idx < total_length) =>
              /\ \E p \in 1..Len(shards) :
                    /\ Holds(p, result.idx)
                    /\ \A q \in 1..Len(shards) \ {p} : ~Holds(q, result.idx)
                    /\ LET k == result.idx - Offset(p)
                           st == shards[p].store
                       IN  IF ImageKey(k) \in DOMAIN st
                           THEN /\ result.err = "none"
                                /\ result.image = bytes2pil(st[ImageKey(k)])
                                /\ result.label = bytes2str(st[LabelKey(k)])
                           ELSE result.err = "KeyError"
              /\ (Len(shards) = 2 /\ result.idx >= Offset(2)) =>
                    LET b == GetItem(<<shards[2].store>>, result.idx - Offset(2))
                    IN  /\ result.err = b.err
                        /\ result.image = b.image
                        /\ result.label = b.label

C14_Witness ==
    /\ HasRead /\ lengths = <<1, 0, 1>>
    /\ result.idx = 1 /\ result.err = "none"
    /\ result.image = bytes2pil(shards[3].store[ImageKey(0)])

\* C15: over shards as the write pipeline leaves them (every index below
\* the counter present), reader[len(reader)] and reader[-1] raise
\* IndexError and, when the reader is not empty, reader[len(reader) - 1]
\* gives a record.
C15_Boundary ==
    (HasRead /\ \A p \in 1..Len(shards) : WellFormed(shards[p].store)) =>
        /\ result.idx = total_length => result.err = "IndexError"
        /\ result.idx = -1 => result.err = "IndexError"
        /\ (total_length > 0 /\ result.idx = total_length - 1) => result.err = "none"

C15_Witness ==
    /\ HasRead /\ lengths = <<1, 1, 0>>
    /\ result.idx = total_length - 1 /\ result.err = "none"
    /\ \A p \in 1..Len(shards) : WellFormed(shards[p].store)

\* C16: when a path of the list is missing, LMDBReader.__init__ raises
\* FileNotFoundError and none of the environments it opened before is left
\* open.
C16_FailedOpenReleases ==
    (shards # <<>> /\ FirstMissing(shards) # 0) =>
        /\ rpc = "failed"
        /\ initErr = "FileNotFoundError"
        /\ openEnvs = {}
        /\ envs = <<>>

C16_Witness ==
    /\ rpc = "failed" /\ Len(shards) = 3 /\ FirstMissing(shards) = 3
    /\ lengths = <<1, 2>>

\* C17: a read of an index in range whose image key is absent in the shard
\* it resolves to raises KeyError, and a read that raises KeyError or
\* IndexError leaves the shards, the reader's lengths, offsets and open
\* environments as they were: every environment still resolves to the same
\* store, so every valid index reads as before.
C17_ImageAbsent ==
    \E p \in 1..Len(shards) :
        /\ Holds(p, result.idx)
        /\ ImageKey(result.idx - Offset(p)) \notin DOMAIN shards[p].store

C17_FailedReadChangesNothing ==
    [][/\ (HasRead /\ C17_ImageAbsent)' => result'.err = "KeyError"
       /\ (result' # result /\ result'.err \in {"KeyError", "IndexError"}) =>
             /\ UNCHANGED <<shards, rpc, envs, lengths, total_length,
                            cumulative_lengths, openEnvs, initErr>>
             /\ StoresOf(shards', envs') = StoresOf(shards, envs)]_vars

C17_Witness ==
    /\ HasRead /\ result.err = "KeyError"
    /\ Len(shards) = 2 /\ lengths = <<2, 1>> /\ result.idx = 1
    /\ openEnvs = {1, 2}

\* C18: a close() of a reader that was closed before, and a close() of a
\* writer that was closed before (by create_dataset or by an earlier
\* close()), changes nothing; after any close() no environment of the object
\* is open.
C18_CloseIdempotent ==
    [][/\ (closes'.reader > closes.reader /\ closes.reader >= 1) =>
             UNCHANGED <<pipelineVars, readerVars, recoveryVars>>
       /\ closes'.reader > closes.reader =>
             (openEnvs' = {} /\ envs' = <<>> /\ rpc' = "closed")
       /\ (closes'.writer > closes.writer /\ (closes.writer >= 1 \/ ~envOpen)) =>
             UNCHANGED <<pipelineVars, readerVars, recoveryVars>>
       /\ closes'.writer > closes.writer => ~envOpen']_vars

C18_Witness ==
    /\ closes.writer >= 2 /\ closes.reader >= 2
    /\ rpc = "closed" /\ total_length >= 1
    /\ pc = "done" /\ flushExc

\* ------------------------------------------------------------ recovery properties
Min(a, b) == IF a <= b THEN a ELSE b

\* C19: recover_images asks the store for exactly the indices
\* 0 .. min(len(manifest), counter) - 1 and writes files for no other index;
\* an index whose image is absent is skipped and the later ones are still
\* done.
C19_ClampedToCounter ==
    recpc = "done" =>
        /\ fetched = 0..(Min(Len(file_list), recovery_counter) - 1)
        /\ skipped = {i \in fetched : ImageKey(i) \notin DOMAIN lmdb_dir.store}

\* C20: from a shard with counter C, the images 0..C-1 and a manifest of C
\* lines, recover_images leaves C files, and the file named by line i holds
\* the bytes stored under image-i.
C20_RecoversEveryRecord ==
    (recpc = "done" /\ recovery_counter = Len(file_list)
        /\ WellFormed(lmdb_dir.store)) =>
        /\ Cardinality(DOMAIN out) = recovery_counter
        /\ \A i \in 0..(recovery_counter - 1) :
              out[file_list[i + 1]] = lmdb_dir.store[ImageKey(i)]

\* ------------------------------------------------------------ order, labels, batches
\* the items of the current run whose processing did not raise, in the order
\* of submission
Successful == SelectSeq(datasets, LAMBDA item : item \notin failed)

\* C21: with one worker, when create_dataset returns, the records the run
\* added are the successfully processed items in submission order: record
\* base + i holds image and label of the i-th of them, for all of them, so
\* the assignment is a function of the input.
C21_SingleWorkerOrder ==
    (Returned /\ num_workers = 1) =>
        /\ CounterOf(store) = base + Len(Successful)
        /\ \A i \in 1..Len(Successful) :
              /\ ImageKey(base + i - 1) \in DOMAIN store
              /\ store[ImageKey(base + i - 1)] = Processed(Successful[i]).image_bin
              /\ LabelKey(base + i - 1) \in DOMAIN store
              /\ store[LabelKey(base + i - 1)]
                    = str2bytes(Processed(Successful[i]).label)

C25_CommitHoldsBatchSizeImages ==
    pc = "commit" => Cardinality(ImageKeys(cache)) = batch_size

\* C28: when create_dataset has returned or raised, no worker process it
\* started is still alive.
C28_NoWorkerOutlivesCall ==
    pc = "done" => \A w \in Workers : ~IsAlive(w)

\* ------------------------------------------------------------ the task queue
\* worker w leaves its input_q.get in this step
Takes(w) == wpc[w] = "get" /\ wpc'[w] \in {"work", "exited"} /\ pc' = pc

\* no item is left on the task queue
NoItemLeft == \A i \in 1..Len(input_queue) : input_queue[i] = None

\* the records added since the writer was opened hold pairwise different
\* images, and while the coordinator lives there are no more of them than
\* items were submitted
OneRecordPerItem ==
    /\ pc # "crashed" => CounterOf(store) <= base + Len(datasets)
    /\ \A i, j \in base..(CounterOf(store) - 1) :
          (i # j /\ ImageKey(i) \in DOMAIN store /\ ImageKey(j) \in DOMAIN store)
              => store[ImageKey(i)] # store[ImageKey(j)]

C22_SetupErrorTouchesNoShard ==
    (cli.pc = "raised" /\ cli.err \in {"ValueError", "FileNotFoundError"}) =>
        \A i \in 1..Len(cli.outputs) : cli.outputs[i] = "old"

\* ------------------------------------------------------------ codec properties
\* C23: for every image pil2bytes accepts, bytes2pil(pil2bytes(img)) has the
\* size and the colour mode of img.
C23_CodecKeepsSizeAndMode ==
    codec.pc = "decoded" =>
        /\ codec.back.size = codec.img.size
        /\ codec.back.mode = codec.img.mode

\* ------------------------------------------------------------ multiprocess_exec properties
\* every argument of the call is one on which func succeeds
AllSucceed == \A i \in 1..Len(exec.args) : exec.args[i] \notin exec.fails

\* C26: a call on which func succeeds for every argument does not raise; it
\* returns one result per argument and used at most num_processes processes.
C26_ReturnsOneResultPerArgument ==
    (exec.pc \in {"returned", "raised"} /\ AllSucceed) =>
        /\ exec.pc = "returned"
        /\ Len(exec.results) = Len(exec.args)
        /\ Len(exec.arg_chunks) <= exec.num_processes

\* C29: the i-th element of the returned list is func(args[i]).
C29_ResultsInArgumentOrder ==
    exec.pc = "returned" =>
        /\ Len(exec.results) = Len(exec.args)
        /\ \A i \in 1..Len(exec.args) : exec.results[i] = func(exec.args[i])

====
